---- MODULE Spec2Model ----
(***************************************************************************)
(* A model of class DataProcessor (src/t4.cpp): a private vector<int>     *)
(* `data` and the three methods processValue, validateData and addData.   *)
(* Each method is an operator over the object's state and its arguments   *)
(* that yields the set of outcomes the build can produce (one outcome     *)
(* wherever the behaviour is defined); each action is one call.           *)
(***************************************************************************)
EXTENDS Integers, Sequences, FiniteSets

VARIABLES
    data,       \* DataProcessor::data, the store
    pre,        \* the store as it was when the last call was made
    hist,       \* every value v with 0 < v < 10000 passed to addData so far
    feed,       \* the caller's stream of in-range candidates (fixed per run)
    op,         \* the last call: "new", "addData", "processValue", "validateData"
    input,      \* int argument of the last addData / processValue call
    mode,       \* mode argument of the last processValue call
    inputData,  \* vector argument of the last validateData call, after the call
    passed,     \* vector argument of the last validateData call, as passed
    ret,        \* int returned by the last processValue call
    isValid,    \* bool returned by the last validateData call
                \* (a call overwrites the record of the call before it)
    line,       \* source line of the return statement the last processValue took
    ub          \* the last call ran into undefined behaviour

vars == <<data, pre, hist, feed, op, input, mode, inputData, passed, ret,
          isValid, line, ub>>

-----------------------------------------------------------------------------
(* int is 32 bits wide *)
MaxInt == 2147483647
MinInt == -2147483647 - 1

(* what a signed overflow or an out-of-bounds read may leave behind *)
Garbage == {MinInt, -1, 0, 1, MaxInt}

Def(v) == {[val |-> v, ub |-> FALSE]}
Undef == {[val |-> g, ub |-> TRUE] : g \in Garbage}

(* a * b in int arithmetic, b > 0 *)
Mul32(a, b) ==
    LET hi == MaxInt \div b
        lo == -(hi + (IF MaxInt % b = b - 1 THEN 1 ELSE 0))
    IN  IF a <= hi /\ a >= lo THEN Def(a * b) ELSE Undef

(* a + c in int arithmetic *)
Add32(a, c) ==
    IF c >= 0
    THEN IF a <= MaxInt - c THEN Def(a + c) ELSE Undef
    ELSE IF a >= MinInt - c THEN Def(a + c) ELSE Undef

(* input * b + c, as the expression is evaluated *)
MulAdd32(a, b, c) ==
    UNION { IF m.ub THEN {m} ELSE Add32(m.val, c) : m \in Mul32(a, b) }

(* input % 2 == 0 (C++ remainder truncates toward zero; zero iff even) *)
IsEven(a) == a % 2 = 0

-----------------------------------------------------------------------------
(* Program constants *)
Capacity == 100
ValueLimit == 10000
SizeLimit == 1000

(* DataProcessor(): the vector is default-constructed, empty *)
DataProcessor == << >>

Returns(d, rs, ln) ==
    {[ret |-> r.val, ub |-> r.ub, line |-> ln, data |-> d] : r \in rs}

(* processValue with the `input < 100` test lost *)
processValue_NoClamp(d, in, md) ==
    IF in > 0
    THEN IF md = "double"
         THEN IF IsEven(in)
              THEN IF in > 10
                   THEN Returns(d, MulAdd32(in, 2, 5), 18)
                   ELSE Returns(d, Mul32(in, 2), 20)
              ELSE Returns(d, MulAdd32(in, 2, -1), 23)
         ELSE IF md = "triple" /\ in < 50
              THEN Returns(d, Mul32(in, 3), 30)
              ELSE Returns(d, Def(0), 34)
    ELSE Returns(d, Def(0), 34)

(* processValue with `input >= 10` for `input > 10` *)
processValue_Ge10(d, in, md) ==
    IF in > 0
    THEN IF md = "double"
         THEN IF in < 100
              THEN IF IsEven(in)
                   THEN IF in >= 10
                        THEN Returns(d, MulAdd32(in, 2, 5), 18)
                        ELSE Returns(d, Mul32(in, 2), 20)
                   ELSE Returns(d, MulAdd32(in, 2, -1), 23)
              ELSE Returns(d, Def(200), 26)
         ELSE IF md = "triple" /\ in < 50
              THEN Returns(d, Mul32(in, 3), 30)
              ELSE Returns(d, Def(0), 34)
    ELSE Returns(d, Def(0), 34)

(* processValue that also records a positive input in the store *)
processValue_Records(d, in, md) ==
    IF in > 0
    THEN IF md = "double"
         THEN IF in < 100
              THEN IF IsEven(in)
                   THEN IF in > 10
                        THEN Returns(Append(d, in), MulAdd32(in, 2, 5), 18)
                        ELSE Returns(Append(d, in), Mul32(in, 2), 20)
                   ELSE Returns(Append(d, in), MulAdd32(in, 2, -1), 23)
              ELSE Returns(Append(d, in), Def(200), 26)
         ELSE IF md = "triple" /\ in < 50
              THEN Returns(Append(d, in), Mul32(in, 3), 30)
              ELSE Returns(Append(d, in), Def(0), 34)
    ELSE Returns(d, Def(0), 34)

(* int processValue(int input, std::string mode) on an object whose store is d *)
processValue(d, in, md) ==
    IF in > 0
    THEN IF md = "double"
         THEN IF in < 100
              THEN IF IsEven(in)
                   THEN IF in > 10
                        THEN Returns(d, MulAdd32(in, 2, 5), 18)
                        ELSE Returns(d, Mul32(in, 2), 20)
                   ELSE Returns(d, MulAdd32(in, 2, -1), 23)
              ELSE Returns(d, Def(200), 26)
         ELSE IF md = "triple" /\ in < 50
              THEN Returns(d, Mul32(in, 3), 30)
              ELSE Returns(d, Def(0), 34)
    ELSE Returns(d, Def(0), 34)

(* the loop running while i <= inputData.size() *)
LoopRange_Le(v) == {i \in 0..Len(v) : i <= Len(v)}

(* the values i takes in `for (int i = 0; i < inputData.size(); i++)` when
   no element stops the loop *)
LoopRange(v) == {i \in 0..Len(v) : i < Len(v)}

(* the for loop of validateData: the values allPositive may end with.  The
   loop breaks at the first element <= 0; reading inputData[i] with
   i >= size() is undefined *)
scan(v) ==
    LET bad == {i \in LoopRange(v) : i < Len(v) /\ v[i + 1] <= 0}
        oob == {i \in LoopRange(v) : i >= Len(v)}
    IN  IF bad # {} THEN Def(FALSE)
        ELSE IF oob # {} THEN {[val |-> b, ub |-> TRUE] : b \in BOOLEAN}
        ELSE Def(TRUE)

(* validateData with `size() <= 1000` for `size() < 1000` *)
validateData_Le(d, v) ==
    LET no == {[ret |-> FALSE, ub |-> FALSE, data |-> d, inputData |-> v]}
    IN  IF Len(v) # 0
        THEN IF Len(v) > 0
             THEN IF Len(v) <= SizeLimit
                  THEN {[ret |-> s.val, ub |-> s.ub, data |-> d, inputData |-> v] :
                            s \in scan(v)}
                  ELSE no
             ELSE no
        ELSE no

(* bool validateData(const std::vector<int>& inputData) *)
validateData(d, v) ==
    LET no == {[ret |-> FALSE, ub |-> FALSE, data |-> d, inputData |-> v]}
    IN  IF Len(v) # 0
        THEN IF Len(v) > 0
             THEN IF Len(v) < SizeLimit
                  THEN {[ret |-> s.val, ub |-> s.ub, data |-> d, inputData |-> v] :
                            s \in scan(v)}
                  ELSE no
             ELSE no
        ELSE no

(* addData with `value <= 10000` for `value < 10000` *)
addData_LeLimit(d, value) ==
    IF value > 0 /\ value <= ValueLimit /\ Len(d) < Capacity
    THEN Append(d, value) ELSE d

(* addData with `size() <= 100` for `size() < 100` *)
addData_LeCap(d, value) ==
    IF value > 0 /\ value < ValueLimit /\ Len(d) <= Capacity
    THEN Append(d, value) ELSE d

(* addData with `value >= 0` for `value > 0` *)
addData_Ge0(d, value) ==
    IF value >= 0 /\ value < ValueLimit /\ Len(d) < Capacity
    THEN Append(d, value) ELSE d

(* addData that overwrites the last element of a full store *)
addData_Overwrite(d, value) ==
    IF value > 0 /\ value < ValueLimit
    THEN IF Len(d) < Capacity THEN Append(d, value)
         ELSE [d EXCEPT ![Len(d)] = value]
    ELSE d

(* addData that drops the oldest element of a full store to make room *)
addData_Ring(d, value) ==
    IF value > 0 /\ value < ValueLimit
    THEN IF Len(d) < Capacity THEN Append(d, value)
         ELSE Append(Tail(d), value)
    ELSE d

(* void addData(int value): the store after the call *)
addData(d, value) ==
    IF value > 0
    THEN IF value < ValueLimit
         THEN IF Len(d) < Capacity
              THEN Append(d, value)
              ELSE d
         ELSE d
    ELSE d

-----------------------------------------------------------------------------
(* Bounds of the model *)
MaxOffered == 102      \* in-range candidates a run passes to addData
MaxInput == 203        \* largest of the consecutive inputs tried on processValue
MaxShort == 2          \* validateData is tried on every sequence up to this length

InRange(v) == 0 < v /\ v < 10000

(* the k-th in-range candidate of stream f *)
Gen(f, k) == IF k = f.at THEN f.val ELSE ((f.start + f.step * (k - 1)) % 9999) + 1

Feeds ==
    {[start |-> s, step |-> 7, at |-> 0, val |-> 1] : s \in {0, 9990}}
    \cup {[start |-> 0, step |-> 1, at |-> a, val |-> w] :
              a \in {100, 101}, w \in {1, 9999}}

(* candidates addData never stores *)
RejectValues == {MinInt, -1, 0, 10000, 10001, MaxInt}

Offer ==
    RejectValues
    \cup (IF Len(hist) < MaxOffered THEN {Gen(feed, Len(hist) + 1)} ELSE {})

Modes == {"double", "triple", "unknown"}
Inputs == {MinInt, 0, 4, 7, 12, 49, 50, 98, 100, MaxInt}

SeqsOver(vals, n) == UNION {[1..k -> vals] : k \in 0..n}
ShortSeqs == SeqsOver({-1, 0, 1}, MaxShort)

(* n elements, all positive except (when 1 <= at <= n) the one at `at` *)
Filled(n, at, bad) == [i \in 1..n |-> IF i = at THEN bad ELSE (i % 7) + 1]
LongLens == {998, 999, 1000, 1001}
LongSeqs ==
    {Filled(n, at, bad) : n \in LongLens, at \in {0, 1, 500, 998, 999, 1000, 1001},
                          bad \in {0, -1}}
    \cup {[i \in 1..n |-> MaxInt] : n \in {1, 999, 1000}}

PureInputs ==
    (-3..MaxInput)
    \cup {MinInt, MinInt + 1, -1073741825, -1073741824, 715827882, 715827883,
          1073741821, 1073741823, 1073741824, MaxInt - 1, MaxInt}
PureModes == Modes \cup {"", "Double", "doubl", "triple ", "TRIPLE"}
PureSeqs == SeqsOver({MinInt, -1, 0, 1, 2, MaxInt}, MaxShort + 1) \cup LongSeqs

-----------------------------------------------------------------------------
Init ==
    /\ data = DataProcessor
    /\ pre = DataProcessor
    /\ hist = << >>
    /\ feed \in Feeds
    /\ op = "new"
    /\ input = 0
    /\ mode = ""
    /\ inputData = << >>
    /\ passed = << >>
    /\ ret = 0
    /\ isValid = FALSE
    /\ line = 0
    /\ ub = FALSE

AddData(value) ==
    /\ data' = addData(data, value)
    /\ pre' = data
    /\ hist' = IF InRange(value) THEN Append(hist, value) ELSE hist
    /\ op' = "addData"
    /\ input' = value
    /\ ub' = FALSE
    /\ mode' = "" /\ inputData' = << >> /\ passed' = << >>
    /\ ret' = 0 /\ isValid' = FALSE /\ line' = 0
    /\ UNCHANGED feed

ProcessValue(in, md) ==
    \E o \in processValue(data, in, md) :
        /\ data' = o.data
        /\ pre' = data
        /\ op' = "processValue"
        /\ input' = in
        /\ mode' = md
        /\ ret' = o.ret
        /\ line' = o.line
        /\ ub' = o.ub
        /\ inputData' = << >> /\ passed' = << >> /\ isValid' = FALSE
        /\ UNCHANGED <<hist, feed>>

ValidateData(v) ==
    \E o \in validateData(data, v) :
        /\ data' = o.data
        /\ pre' = data
        /\ op' = "validateData"
        /\ passed' = v
        /\ inputData' = o.inputData
        /\ isValid' = o.ret
        /\ ub' = o.ub
        /\ input' = 0 /\ mode' = "" /\ ret' = 0 /\ line' = 0
        /\ UNCHANGED <<hist, feed>>

Next ==
    \/ \E value \in Offer : AddData(value)
    \/ \E in \in Inputs, md \in Modes : ProcessValue(in, md)
    \/ \E v \in ShortSeqs : ValidateData(v)

Spec == Init /\ [][Next]_vars

(* the two functions of their arguments alone: one call on a fresh object *)
PureInit == Init /\ feed.at = 0 /\ feed.start = 0

PureNext ==
    /\ op = "new"
    /\ \/ \E in \in PureInputs, md \in PureModes : ProcessValue(in, md)
       \/ \E v \in PureSeqs : ValidateData(v)

PureSpec == PureInit /\ [][PureNext]_vars

-----------------------------------------------------------------------------
(* Properties *)

Min(a, b) == IF a < b THEN a ELSE b
IsPrefix(s, t) == Len(s) <= Len(t) /\ SubSeq(t, 1, Len(s)) = s
AllPositive(v) == \A i \in 1..Len(v) : v[i] > 0

(* C1: in every state reachable from the empty store by addData,
   processValue and validateData calls, every stored value v satisfies
   0 < v < 10000 and the store holds at most 100 values *)
C1_StoreInvariant ==
    /\ Len(data) <= 100
    /\ \A i \in 1..Len(data) : 0 < data[i] /\ data[i] < 10000

C1_Witness ==
    /\ Len(data) = 100
    /\ data[1] = 1
    /\ data[100] = 9999
    /\ op = "validateData"

(* C2: addData(value) leaves the store as the old store with value appended
   as its last element if and only if value > 0, value < 10000 and the old
   store held fewer than 100 values *)
C2_AppendIff ==
    op = "addData" =>
        ((data = Append(pre, input))
            <=> (input > 0 /\ input < 10000 /\ Len(pre) < 100))

C2_Witness ==
    op = "addData" /\ Len(pre) = 99 /\ data = Append(pre, input)

(* C3: addData with value <= 0, value >= 10000, or on a store that already
   holds 100 values leaves the store exactly as it was and raises no error *)
C3_RejectedUnchanged ==
    (op = "addData" /\ (input <= 0 \/ input >= 10000 \/ Len(pre) >= 100))
        => (data = pre /\ ~ub)

C3_Witness ==
    op = "addData" /\ Len(pre) = 100 /\ InRange(input) /\ data = pre

(* C4: starting from the empty store, after n in-range values have been
   passed to addData the store is the first min(n, 100) of them in their
   original order *)
C4_FirstHundred ==
    data = SubSeq(hist, 1, Min(Len(hist), 100))

C4_Witness ==
    Len(hist) = 101 /\ Len(data) = 100 /\ data[100] = hist[100]

(* the ordered rule table of the transform *)
RuleTable(in, md) ==
    IF in <= 0 THEN 0
    ELSE IF md = "double"
         THEN IF in >= 100 THEN 200
              ELSE IF in % 2 = 0 /\ in > 10 THEN in * 2 + 5
              ELSE IF in % 2 = 0 THEN in * 2
              ELSE in * 2 - 1
    ELSE IF md = "triple"
         THEN IF in < 50 THEN in * 3 ELSE 0
    ELSE 0

(* C5: for every input and mode, processValue returns the value of the
   ordered rule table *)
C5_RuleTable ==
    op = "processValue" => (~ub /\ ret = RuleTable(input, mode))

C5_Witness ==
    op = "processValue" /\ mode = "double" /\ input = 12 /\ ret = 29

(* C6: validateData returns true if and only if the sequence is non-empty,
   shorter than 1000 and all its elements are > 0 *)
C6_ValidateIff ==
    op = "validateData" =>
        (isValid <=> (Len(passed) > 0 /\ Len(passed) < 1000 /\ AllPositive(passed)))

C6_Witness ==
    op = "validateData" /\ Len(passed) = 999 /\ isValid

(* C7: processValue and validateData leave the store unchanged, validateData
   leaves its argument unchanged, and each returns what it returns for the
   same arguments on a freshly created object *)
C7_NoSideEffects ==
    /\ op = "processValue" =>
           /\ data = pre
           /\ \E o \in processValue(DataProcessor, input, mode) : o.ret = ret
    /\ op = "validateData" =>
           /\ data = pre
           /\ inputData = passed
           /\ \E o \in validateData(DataProcessor, passed) : o.ret = isValid

C7_Witness ==
    op = "processValue" /\ Len(data) = 100 /\ input = 98 /\ ret = 201

(* C8: the store is created empty, and across every call the store before
   the call is a prefix of the store after it (so its length never
   decreases and nothing is removed, replaced or reordered) *)
C8_AppendOnly ==
    /\ op = "new" => data = << >>
    /\ Len(pre) <= Len(data)
    /\ IsPrefix(pre, data)

C8_Witness ==
    op = "addData" /\ Len(pre) = 49 /\ Len(data) = 50

(* C9: processValue returns 0 for every input <= 0, for every mode other
   than "double" and "triple", and for mode "triple" with input >= 50;
   validateData returns false for every invalid sequence; and no call ends
   in an error *)
C9_Defaults ==
    /\ ~ub
    /\ (op = "processValue"
          /\ (input <= 0 \/ mode \notin {"double", "triple"}
                \/ (mode = "triple" /\ input >= 50)))
         => ret = 0
    /\ (op = "validateData"
          /\ ~(Len(passed) > 0 /\ Len(passed) < 1000 /\ AllPositive(passed)))
         => ~isValid

C9_Witness ==
    op = "processValue" /\ mode = "triple" /\ input = MaxInt /\ ret = 0
        /\ Len(data) = 100

(* C10: processValue never overflows int: it multiplies only when
   0 < input < 100 in mode "double" and 0 < input < 50 in mode "triple";
   its result lies in 0..201, and 201 is returned (only) for input 98 in
   mode "double", above the 200 returned for inputs >= 100 *)
C10_Range ==
    op = "processValue" =>
        /\ ~ub
        /\ 0 <= ret /\ ret <= 201
        /\ ret = 201 => (mode = "double" /\ input = 98)
        /\ line \in {18, 20, 23} => (mode = "double" /\ 0 < input /\ input < 100)
        /\ line = 30 => (mode = "triple" /\ 0 < input /\ input < 50)
        /\ (mode = "double" /\ input >= 100) => ret = 200

C10_Witness ==
    op = "processValue" /\ mode = "double" /\ input = 98 /\ ret = 201 /\ line = 18

====
